---- MODULE Spec2Model ----
(***************************************************************************)
(* Model of hyper-catalan-rs: SubdigonType (src/src/subdigon/mod.rs),      *)
(* HyperCatalanCalculator (src/src/calculator/mod.rs) and                  *)
(* HyperCatalanPolynomialSolver (src/src/solver/mod.rs).                   *)
(*                                                                         *)
(* Numbers.  BigRational values and HighPrecFloat (f64) values are both    *)
(* written as pairs <<n, d>> in lowest terms with d >= 0.  d > 0 is the    *)
(* rational n/d; d = 0 encodes the IEEE-754 values a division by zero      *)
(* produces: <<1,0>> = +inf, <<-1,0>> = -inf, <<0,0>> = NaN.  f64          *)
(* arithmetic is modelled without rounding, which is exact for the small   *)
(* values the bounds below admit only up to the rounding of a quotient;    *)
(* no claim checked here depends on a rounded digit.  Sums in the code     *)
(* start from +0.0, so a zero that reaches a divisor is +0.0.              *)
(*                                                                         *)
(* Sequences are 1-based here and 0-based in the source: element j of a    *)
(* sequence is index i = j - 1 of the Vec or slice it models.              *)
(***************************************************************************)
EXTENDS Integers, Sequences, FiniteSets, TLC

VARIABLES
    max_degree,   \* HyperCatalanPolynomialSolver.max_degree
    max_terms,    \* HyperCatalanPolynomialSolver.max_terms
    debug_mode,   \* HyperCatalanPolynomialSolver.debug_mode
    cache,        \* HyperCatalanCalculator.cache : type -> BigRational
    call,         \* the operation last entered, with its arguments
    ret,          \* the value the operation last completed returned
    first,        \* for each type, the value its first calculate returned
    pc,           \* "idle", or the position inside bootstrap_root
    x,            \* bootstrap_root: local x
    iter          \* bootstrap_root: loop counter i

vars == <<max_degree, max_terms, debug_mode, cache, call, ret, first, pc, x, iter>>

solverVars == <<max_degree, max_terms, debug_mode>>
newtonVars == <<pc, x, iter>>

-----------------------------------------------------------------------------
(* Bounds of the model *)

MaxLen == 3
MaxFaces == 3
CacheFaces == 2
MaxCache == 2
MaxGenFaces == 10
MaxGenSize == 4
MaxDegree == 3
MaxTerms == 3
MaxCoeffs == 3
MaxIter == 2
EpsDen == 100

-----------------------------------------------------------------------------
(* Integer helpers *)

IAbs(n) == IF n < 0 THEN -n ELSE n

Sign(n) == IF n < 0 THEN -1 ELSE IF n > 0 THEN 1 ELSE 0

RECURSIVE Gcd(_, _)
Gcd(a, b) == IF b = 0 THEN a ELSE Gcd(b, a % b)

\* Rust's integer `/` truncates toward zero
TruncDiv(a, b) == Sign(a) * Sign(b) * (IAbs(a) \div IAbs(b))

-----------------------------------------------------------------------------
(* Numbers: lowest terms, sign in the numerator; d = 0 for inf and NaN *)

Rat(n, d) ==
    IF d = 0 THEN <<Sign(n), 0>>
    ELSE LET g == Gcd(IAbs(n), IAbs(d))
         IN  <<Sign(d) * (n \div g), IAbs(d) \div g>>

NaN == <<0, 0>>
PInf == <<1, 0>>
NInf == <<-1, 0>>
Zero == <<0, 1>>
One == <<1, 1>>

IsNaN(a) == a = NaN
IsInf(a) == a[2] = 0 /\ a[1] # 0

FNeg(a) == <<-a[1], a[2]>>

FAbs(a) == <<IAbs(a[1]), a[2]>>

FMul(a, b) == Rat(a[1] * b[1], a[2] * b[2])

FRecip(a) == Rat(a[2], a[1])

FDiv(a, b) == FMul(a, FRecip(b))

FAdd(a, b) ==
    IF IsNaN(a) \/ IsNaN(b) THEN NaN
    ELSE IF IsInf(a) /\ IsInf(b) THEN (IF a = b THEN a ELSE NaN)
    ELSE IF IsInf(a) THEN a
    ELSE IF IsInf(b) THEN b
    ELSE LET g == Gcd(a[2], b[2])
         IN  Rat(a[1] * (b[2] \div g) + b[1] * (a[2] \div g), (a[2] \div g) * b[2])

FSub(a, b) == FAdd(a, FNeg(b))

\* a < b on f64: false when either side is NaN
FLt(a, b) ==
    IF IsNaN(a) \/ IsNaN(b) THEN FALSE
    ELSE IF IsInf(a) \/ IsInf(b)
         THEN a # b /\ (a = NInf \/ b = PInf)
    ELSE a[1] * b[2] < b[1] * a[2]

\* a == b on f64: false when either side is NaN
FEq(a, b) == ~IsNaN(a) /\ ~IsNaN(b) /\ a = b

\* f64::powi for an exponent k >= 0; powi(x, 0) is 1.0 for every x
RECURSIVE FPowi(_, _)
FPowi(a, k) == IF k = 0 THEN One ELSE FMul(a, FPowi(a, k - 1))

FromInt(n) == <<n, 1>>

-----------------------------------------------------------------------------
(* SubdigonType: src/src/subdigon/mod.rs *)

RECURSIVE SumTo(_, _)
\* m[1] + ... + m[j]
SumTo(m, j) == IF j = 0 THEN 0 ELSE SumTo(m, j - 1) + m[j]

RECURSIVE SidesTo(_, _)
\* sum over the first j entries of (i + 2) * m[i], i the 0-based index
SidesTo(m, j) == IF j = 0 THEN 0 ELSE SidesTo(m, j - 1) + (j + 1) * m[j]

faces(m) == SumTo(m, Len(m))

edges(m) == TruncDiv(SidesTo(m, Len(m)), 2)

VerticesOffByOne(m) == edges(m) - faces(m) + 1

vertices(m) == edges(m) - faces(m) + 2

-----------------------------------------------------------------------------
(* HyperCatalanCalculator: src/src/calculator/mod.rs *)

RECURSIVE ProdFrom(_, _)
\* the loop `for i in 2..=n { result *= i }`, entered at i
ProdFrom(i, n) == IF i > n THEN 1 ELSE i * ProdFrom(i + 1, n)

factorial(n) == IF n <= 1 THEN 1 ELSE ProdFrom(2, n)

\* calculate's inline edge count: the loop of lines 43-46, then e /= 2
InlineE(m) == TruncDiv(SidesTo(m, Len(m)), 2)

RECURSIVE InlineVTo(_, _)
\* the loop of lines 51-54: v starts at 1 and adds i * count, i 0-based
InlineVTo(m, j) == IF j = 0 THEN 1 ELSE InlineVTo(m, j - 1) + (j - 1) * m[j]

InlineV(m) == InlineVTo(m, Len(m))

RECURSIVE DenomTo(_, _, _)
\* the loop of lines 61-65: denominator *= factorial(count) when count > 0
DenomTo(m, j, d) ==
    IF j = 0 THEN d
    ELSE DenomTo(m, j - 1, d) * (IF m[j] > 0 THEN factorial(m[j]) ELSE 1)

\* the value calculate computes on a cache miss: BigRational::new(num, den)
HyperCatalan(m) ==
    Rat(factorial(InlineE(m)), DenomTo(m, Len(m), factorial(InlineV(m))))

EmptyCache == [t \in {} |-> Zero]

CacheInsertNumerator(c, t, v) ==
    [k \in DOMAIN c \cup {t} |-> IF k = t THEN <<v[1], 1>> ELSE c[k]]

\* HashMap::insert(type_.clone(), result.clone())
CacheInsert(c, t, v) ==
    [k \in DOMAIN c \cup {t} |-> IF k = t THEN v ELSE c[k]]

CalcResultStaleHit(c, t) ==
    IF t \in DOMAIN c
    THEN [value |-> FAdd(c[t], One), cache |-> c]
    ELSE LET result == HyperCatalan(t)
         IN  [value |-> result, cache |-> CacheInsert(c, t, result)]

\* the cache and the value returned by calculate(type_) on cache c
CalcResult(c, t) ==
    IF t \in DOMAIN c
    THEN [value |-> c[t], cache |-> c]
    ELSE LET result == HyperCatalan(t)
         IN  [value |-> result, cache |-> CacheInsert(c, t, result)]

\* first' : the record of the first value each type's calculate returned
Remember(f, t, v) ==
    IF t \in DOMAIN f THEN f ELSE [k \in DOMAIN f \cup {t} |-> IF k = t THEN v ELSE f[k]]

\* all vectors of length n with entries in 0..hi
Vectors(n, hi) == [1..n -> 0..hi]

\* SubdigonType values of length at most MaxLen with at most MaxFaces faces
Types == {m \in UNION {Vectors(n, MaxFaces) : n \in 0..MaxLen} : faces(m) <= MaxFaces}

\* the types a long-lived calculator is asked for: length MaxLen, few faces
CacheTypes == {m \in Vectors(MaxLen, CacheFaces) : faces(m) <= CacheFaces}

\* HyperCatalanCalculator::calculate(&mut self, type_)
Calculate(t) ==
    /\ pc = "idle"
    /\ LET r == CalcResult(cache, t)
       IN  /\ cache' = r.cache
           /\ ret' = r.value
           /\ first' = Remember(first, t, r.value)
    /\ call' = [op |-> "calculate", m |-> t, hit |-> t \in DOMAIN cache]
    /\ UNCHANGED <<solverVars, newtonVars>>

\* SubdigonType::faces(&self)
Faces ==
    /\ pc = "idle"
    /\ ret' = faces(call.m)
    /\ call' = [op |-> "faces", m |-> call.m]
    /\ UNCHANGED <<solverVars, newtonVars, cache, first>>

\* SubdigonType::edges(&self)
Edges ==
    /\ pc = "idle"
    /\ ret' = edges(call.m)
    /\ call' = [op |-> "edges", m |-> call.m]
    /\ UNCHANGED <<solverVars, newtonVars, cache, first>>

\* SubdigonType::vertices(&self)
Vertices ==
    /\ pc = "idle"
    /\ ret' = vertices(call.m)
    /\ call' = [op |-> "vertices", m |-> call.m]
    /\ UNCHANGED <<solverVars, newtonVars, cache, first>>

\* calculate on the type at hand
CalculateType == Calculate(call.m)

\* the fields the calculator and type specifications do not use
Unused ==
    /\ max_degree = 0
    /\ max_terms = 0
    /\ debug_mode = FALSE
    /\ pc = "idle"
    /\ x = Zero
    /\ iter = 0

\* SubdigonType::new(values) beside HyperCatalanCalculator::new()
InitType ==
    /\ Unused
    /\ cache = EmptyCache
    /\ first = EmptyCache
    /\ \E m \in Types : call = [op |-> "new", m |-> m]
    /\ ret = Zero

NextType == Faces \/ Edges \/ Vertices \/ CalculateType

SpecType == InitType /\ [][NextType]_vars

\* HyperCatalanCalculator::new()
InitCalc ==
    /\ Unused
    /\ cache = EmptyCache
    /\ first = EmptyCache
    /\ call = [op |-> "new", m |-> <<>>]
    /\ ret = Zero

\* calculate on any type, the cache kept to MaxCache entries
CalculateAny ==
    \E t \in CacheTypes :
        /\ (t \in DOMAIN cache \/ Cardinality(DOMAIN cache) < MaxCache)
        /\ Calculate(t)

NextCalc == CalculateAny

SpecCalc == InitCalc /\ [][NextCalc]_vars

-----------------------------------------------------------------------------
(* HyperCatalanPolynomialSolver: type enumeration, src/src/solver/mod.rs *)

RECURSIVE generate_types_recursive(_, _, _, _)
RECURSIVE GenLoop(_, _, _, _, _)
RECURSIVE GenLoopExclusive(_, _, _, _, _)

\* st = [results, current], the two &mut Vec arguments; index is 0-based
generate_types_recursive(st, remaining_faces, index, max_polygon_size) ==
    IF index = max_polygon_size
    THEN IF remaining_faces = 0
         THEN [st EXCEPT !.results = Append(st.results, st.current)]
         ELSE st
    ELSE GenLoop(st, remaining_faces, index, max_polygon_size, 0)

GenLoopExclusive(st, remaining_faces, index, max_polygon_size, i) ==
    IF i >= remaining_faces THEN st
    ELSE LET after == generate_types_recursive(
                          [st EXCEPT !.current[index + 1] = i],
                          remaining_faces - i, index + 1, max_polygon_size)
         IN  IF Len(after.results) >= 0
             THEN GenLoopExclusive(after, remaining_faces, index, max_polygon_size, i + 1)
             ELSE after

\* the loop `for i in 0..=remaining_faces`, entered at i (the test on
\* after.results only makes TLC finish one call before it starts the next)
GenLoop(st, remaining_faces, index, max_polygon_size, i) ==
    IF i > remaining_faces THEN st
    ELSE LET after == generate_types_recursive(
                          [st EXCEPT !.current[index + 1] = i],
                          remaining_faces - i, index + 1, max_polygon_size)
         IN  IF Len(after.results) >= 0
             THEN GenLoop(after, remaining_faces, index, max_polygon_size, i + 1)
             ELSE after

generate_types(total_faces, max_polygon_size) ==
    generate_types_recursive(
        [results |-> <<>>, current |-> [j \in 1..max_polygon_size |-> 0]],
        total_faces, 0, max_polygon_size).results

\* generate_types(&self, total_faces, max_polygon_size)
GenerateTypes ==
    /\ pc = "idle"
    /\ call.op = "args"
    /\ ret' = generate_types(call.total_faces, call.max_polygon_size)
    /\ call' = [call EXCEPT !.op = "generate_types"]
    /\ UNCHANGED <<solverVars, newtonVars, cache, first>>

\* a solver and the arguments of one generate_types call
InitGen ==
    /\ Unused
    /\ cache = EmptyCache
    /\ first = EmptyCache
    /\ \E n \in 0..MaxGenFaces, k \in 0..MaxGenSize :
           call = [op |-> "args", total_faces |-> n, max_polygon_size |-> k]
    /\ ret = <<>>

NextGen == GenerateTypes

SpecGen == InitGen /\ [][NextGen]_vars

-----------------------------------------------------------------------------
(* HyperCatalanPolynomialSolver: series and root mapping *)

RECURSIVE TermProductTo(_, _, _)
\* the loop of lines 119-124 over the first j entries of type_.m: entry j is
\* index i = j - 1, and t_coefficients[i + 2] is element j + 2 here
TermProductTo(m, t, j) ==
    IF j = 0 THEN One
    ELSE LET before == TermProductTo(m, t, j - 1)
         IN  IF m[j] > 0 /\ (j - 1) + 2 < Len(t)
             THEN FMul(before, FPowi(t[j + 2], m[j]))
             ELSE before

RECURSIVE SumTypes(_, _, _, _)
\* the loop of lines 109-133 over types[j..]; acc = [result, cache]
SumTypes(types, t, j, acc) ==
    IF j > Len(types) THEN acc
    ELSE LET c_m == CalcResult(acc.cache, types[j])
             term == FMul(c_m.value, TermProductTo(types[j], t, Len(types[j])))
             after == [result |-> FAdd(acc.result, term), cache |-> c_m.cache]
         IN  IF after.result[2] >= 0
             THEN SumTypes(types, t, j + 1, after)
             ELSE after

RECURSIVE SumFaces(_, _, _, _, _)
\* the loop of lines 98-134, entered at total_faces; max_degree - 1 is a
\* usize subtraction: with max_degree = 0 it panics (overflow check), or
\* wraps to usize::MAX and vec![0; usize::MAX] panics (capacity overflow)
SumFaces(t, degree, terms, total_faces, acc) ==
    IF total_faces >= terms
    THEN [result |-> acc.result, cache |-> acc.cache, panic |-> FALSE]
    ELSE IF degree = 0
    THEN [result |-> acc.result, cache |-> acc.cache, panic |-> TRUE]
    ELSE LET types == generate_types(total_faces, degree - 1)
         IN  IF Len(types) >= 0
             THEN SumFaces(t, degree, terms, total_faces + 1, SumTypes(types, t, 1, acc))
             ELSE [result |-> acc.result, cache |-> acc.cache, panic |-> FALSE]

\* solve_geometric_form(&mut self, t_coefficients) on cache c:
\* [result, cache, panic]
solve_geometric_form(t, degree, terms, c) ==
    SumFaces(t, degree, terms, 0, [result |-> Zero, cache |-> c])

\* lines 180-190: the geometric form of a polynomial with c1 # 0
GeometricCoeffs(coefficients) ==
    [j \in 1..Len(coefficients) |->
        IF j = 1 THEN One
        ELSE IF j = 2 THEN FNeg(One)
        ELSE FDiv(coefficients[j], coefficients[2])]

ErrDegreeTooLow == [kind |-> "Err", err |-> "DegreeTooLow"]
ErrZeroLinear == [kind |-> "Err", err |-> "ZeroLinearCoefficient"]
Panicked == [kind |-> "Panic"]
Ok(v) == [kind |-> "Ok", value |-> v]

SolveResultNoLinearCheck(coefficients, degree, terms, c) ==
    IF Len(coefficients) < 2 THEN [ret |-> ErrDegreeTooLow, cache |-> c]
    ELSE LET s == solve_geometric_form(GeometricCoeffs(coefficients), degree, terms, c)
             root == s.result
         IN  IF s.panic THEN [ret |-> Panicked, cache |-> s.cache]
             ELSE IF FEq(root, Zero) THEN [ret |-> Ok(One), cache |-> s.cache]
             ELSE [ret |-> Ok(FDiv(FNeg(coefficients[1]), FMul(coefficients[2], root))),
                   cache |-> s.cache]

SolveResultLinearFirst(coefficients, degree, terms, c) ==
    IF Len(coefficients) < 2 THEN [ret |-> Panicked, cache |-> c]
    ELSE IF FEq(coefficients[2], Zero) THEN [ret |-> ErrZeroLinear, cache |-> c]
    ELSE SolveResultNoLinearCheck(coefficients, degree, terms, c)

SolveResultNoZeroRootCheck(coefficients, degree, terms, c) ==
    IF Len(coefficients) < 2 THEN [ret |-> ErrDegreeTooLow, cache |-> c]
    ELSE IF FEq(coefficients[2], Zero) THEN [ret |-> ErrZeroLinear, cache |-> c]
    ELSE LET s == solve_geometric_form(GeometricCoeffs(coefficients), degree, terms, c)
         IN  IF s.panic THEN [ret |-> Panicked, cache |-> s.cache]
             ELSE [ret |-> Ok(FDiv(FNeg(coefficients[1]), FMul(coefficients[2], s.result))),
                   cache |-> s.cache]

\* solve_polynomial(&mut self, coefficients) on cache c: [ret, cache]
SolveResult(coefficients, degree, terms, c) ==
    IF Len(coefficients) < 2 THEN [ret |-> ErrDegreeTooLow, cache |-> c]
    ELSE IF FEq(coefficients[2], Zero) THEN [ret |-> ErrZeroLinear, cache |-> c]
    ELSE LET s == solve_geometric_form(GeometricCoeffs(coefficients), degree, terms, c)
             root == s.result
         IN  IF s.panic THEN [ret |-> Panicked, cache |-> s.cache]
             ELSE IF FEq(root, Zero) THEN [ret |-> Ok(One), cache |-> s.cache]
             ELSE [ret |-> Ok(FDiv(FNeg(coefficients[1]), FMul(coefficients[2], root))),
                   cache |-> s.cache]

-----------------------------------------------------------------------------
(* HyperCatalanPolynomialSolver: Newton refinement *)

RECURSIVE PolyTo(_, _, _)
\* polynomial_function: result += coeff * x.powi(i) over the first j entries
PolyTo(coefficients, v, j) ==
    IF j = 0 THEN Zero
    ELSE FAdd(PolyTo(coefficients, v, j - 1), FMul(coefficients[j], FPowi(v, j - 1)))

polynomial_function(coefficients, v) == PolyTo(coefficients, v, Len(coefficients))

RECURSIVE DerivTo(_, _, _)
\* derivative_function: result += i * coefficients[i] * x.powi(i - 1), for
\* i in 1..len; entry j here is index i = j - 1
DerivTo(coefficients, v, j) ==
    IF j <= 1 THEN Zero
    ELSE FAdd(DerivTo(coefficients, v, j - 1),
              FMul(FMul(FromInt(j - 1), coefficients[j]), FPowi(v, j - 2)))

derivative_function(coefficients, v) == DerivTo(coefficients, v, Len(coefficients))

NewtonStepTestAfter(coefficients, v, epsilon) ==
    LET f_x == polynomial_function(coefficients, v)
        df_x == derivative_function(coefficients, v)
    IN  IF FLt(FAbs(df_x), epsilon)
        THEN [x |-> v, brk |-> TRUE]
        ELSE LET delta == FDiv(f_x, df_x)
                 new_x == FSub(v, delta)
             IN  [x |-> new_x,
                  brk |-> \/ FLt(FAbs(polynomial_function(coefficients, new_x)), epsilon)
                          \/ FLt(FAbs(delta), epsilon)]

\* one pass through the loop body of lines 262-298: the new x, and whether
\* the pass ended in a break
NewtonStep(coefficients, v, epsilon) ==
    LET f_x == polynomial_function(coefficients, v)
        df_x == derivative_function(coefficients, v)
    IN  IF FLt(FAbs(df_x), epsilon)
        THEN [x |-> v, brk |-> TRUE]
        ELSE LET delta == FDiv(f_x, df_x)
                 new_x == FSub(v, delta)
             IN  [x |-> new_x,
                  brk |-> FLt(FAbs(f_x), epsilon) \/ FLt(FAbs(delta), epsilon)]

RECURSIVE BootstrapRun(_, _, _, _, _)
\* bootstrap_root from loop counter i on: the value returned
BootstrapRun(coefficients, v, i, iterations, epsilon) ==
    IF i >= iterations THEN v
    ELSE LET s == NewtonStep(coefficients, v, epsilon)
         IN  IF s.brk THEN s.x
             ELSE BootstrapRun(coefficients, s.x, i + 1, iterations, epsilon)

-----------------------------------------------------------------------------
(* The solver as an object: construction and its public operations *)

\* values of coefficients[0], of coefficients[1], and of every later
\* coefficient
ConstVals == {-4, 1}
CoeffVals == {0, 1}
HighVals == {-1, 0, 1}

\* coefficient slices of exactly n entries
PolysOfLen(n) ==
    {c \in [1..n -> {FromInt(v) : v \in ConstVals \cup CoeffVals \cup HighVals}] :
        \A j \in 1..n : c[j][1] \in (IF j = 1 THEN ConstVals
                                      ELSE IF j = 2 THEN CoeffVals ELSE HighVals)}

\* coefficient slices of at most MaxCoeffs entries
Polys == UNION {PolysOfLen(n) : n \in 0..MaxCoeffs}

\* epsilon arguments: zero, a coarse and a fine tolerance
Epsilons == {Zero, <<1, 2>>, <<1, EpsDen>>}

\* initial_guess arguments
Guesses == {FromInt(v) : v \in {0, 1, 2}}

\* HyperCatalanPolynomialSolver::new and ::new_with_debug
Init ==
    /\ max_degree \in 0..MaxDegree
    /\ max_terms \in 0..MaxTerms
    /\ debug_mode \in BOOLEAN
    /\ cache = EmptyCache
    /\ first = EmptyCache
    /\ call = [op |-> "new"]
    /\ ret = Zero
    /\ pc = "idle"
    /\ x = Zero
    /\ iter = 0

SetDebugModeViaNew ==
    /\ pc = "idle"
    /\ \E debug \in BOOLEAN :
           /\ debug_mode' = debug
           /\ max_terms' = max_degree
           /\ call' = [op |-> "set_debug_mode", debug |-> debug]
    /\ UNCHANGED <<max_degree, cache, ret, first, newtonVars>>

\* set_debug_mode(&mut self, debug)
SetDebugMode ==
    /\ pc = "idle"
    /\ \E debug \in BOOLEAN :
           /\ debug_mode' = debug
           /\ call' = [op |-> "set_debug_mode", debug |-> debug]
    /\ UNCHANGED <<max_degree, max_terms, cache, ret, first, newtonVars>>

\* solve_polynomial(&mut self, coefficients); a panic unwinds out of the
\* caller and nothing is called after it
SolvePolynomial ==
    /\ pc = "idle"
    /\ \E coefficients \in Polys :
           LET r == SolveResult(coefficients, max_degree, max_terms, cache)
           IN  /\ cache' = r.cache
               /\ ret' = r.ret
               /\ call' = [op |-> "solve_polynomial", coefficients |-> coefficients,
                           warm |-> DOMAIN cache # {}]
               /\ pc' = IF r.ret.kind = "Panic" THEN "panic" ELSE "idle"
    /\ UNCHANGED <<solverVars, first, x, iter>>

\* main, lines 41-72: a series root is refined by bootstrap_root, from the
\* series root (the default guess), and the program ends
BootstrapSeriesRoot ==
    /\ pc = "idle"
    /\ call.op = "solve_polynomial"
    /\ ret.kind = "Ok"
    /\ \E iterations \in 0..MaxIter, epsilon \in Epsilons :
           /\ ret' = BootstrapRun(call.coefficients, ret.value, 0, iterations, epsilon)
           /\ call' = [op |-> "bootstrap_root", coefficients |-> call.coefficients,
                       initial_guess |-> ret.value, iterations |-> iterations,
                       epsilon |-> epsilon]
    /\ pc' = "exit"
    /\ UNCHANGED <<solverVars, cache, first, x, iter>>

\* main, line 74: an Err is printed and the program ends
ReportError ==
    /\ pc = "idle"
    /\ call.op = "solve_polynomial"
    /\ ret.kind = "Err"
    /\ pc' = "exit"
    /\ UNCHANGED <<solverVars, cache, first, call, ret, x, iter>>

Next == SetDebugMode \/ SolvePolynomial \/ BootstrapSeriesRoot \/ ReportError

Spec == Init /\ [][Next]_vars

-----------------------------------------------------------------------------
(* bootstrap_root, one loop pass per step *)

\* bootstrap_root(&self, coefficients, initial_guess, iterations, epsilon)
\* at line 261: x = initial_guess, the loop not yet entered
InitNewton ==
    /\ max_degree = 0
    /\ max_terms = 0
    /\ debug_mode \in BOOLEAN
    /\ cache = EmptyCache
    /\ first = EmptyCache
    /\ ret = Zero
    /\ \E coefficients \in Polys, initial_guess \in Guesses,
          iterations \in 0..MaxIter, epsilon \in Epsilons :
           /\ call = [op |-> "bootstrap_root", coefficients |-> coefficients,
                      initial_guess |-> initial_guess, iterations |-> iterations,
                      epsilon |-> epsilon]
           /\ x = initial_guess
    /\ iter = 0
    /\ pc = "loop"

\* one pass of `for i in 0..iterations`, lines 262-298
Iterate ==
    /\ pc = "loop"
    /\ iter < call.iterations
    /\ LET s == NewtonStep(call.coefficients, x, call.epsilon)
       IN  /\ x' = s.x
           /\ IF s.brk
              THEN pc' = "break" /\ iter' = iter
              ELSE pc' = "loop" /\ iter' = iter + 1
    /\ UNCHANGED <<solverVars, cache, first, call, ret>>

\* the loop is left, by a break or with the range exhausted: line 306
Return ==
    /\ \/ pc = "break"
       \/ pc = "loop" /\ iter = call.iterations
    /\ ret' = x
    /\ pc' = "idle"
    /\ UNCHANGED <<solverVars, cache, first, call, x, iter>>

NextNewton == Iterate \/ Return

SpecNewton == InitNewton /\ [][NextNewton]_vars

-----------------------------------------------------------------------------
(* Properties of SubdigonType and HyperCatalanCalculator *)

RECURSIVE TotalOf(_)
TotalOf(m) == IF m = <<>> THEN 0 ELSE Head(m) + TotalOf(Tail(m))

RECURSIVE WeightedOf(_, _)
\* k * m[first] + (k + 1) * m[second] + ...
WeightedOf(m, k) == IF m = <<>> THEN 0 ELSE k * Head(m) + WeightedOf(Tail(m), k + 1)

\* C1: calculate returns 1 for type (1,0,0), 2 for (2,0,0), 3 for (1,1,0),
\* 5 for (3,0,0), 12 for (0,2,0) and 12 for (2,1,0).
C1_KnownValues ==
    call.op = "calculate" =>
        /\ (call.m = <<1, 0, 0>> => ret = <<1, 1>>)
        /\ (call.m = <<2, 0, 0>> => ret = <<2, 1>>)
        /\ (call.m = <<1, 1, 0>> => ret = <<3, 1>>)
        /\ (call.m = <<3, 0, 0>> => ret = <<5, 1>>)
        /\ (call.m = <<0, 2, 0>> => ret = <<12, 1>>)
        /\ (call.m = <<2, 1, 0>> => ret = <<12, 1>>)

\* C4: a calculate call on a type already cached returns the value returned
\* the first time and leaves the cache unchanged (same keys, same values);
\* a cached value is the value first returned for its type.
C4_RepeatedCalculate ==
    /\ [][(call'.op = "calculate" /\ call'.hit) =>
             /\ call'.m \in DOMAIN cache
             /\ ret' = first[call'.m]
             /\ cache' = cache]_vars
    /\ [](/\ DOMAIN cache = DOMAIN first
          /\ \A t \in DOMAIN cache : cache[t] = first[t])

\* a second calculate on a cached type, with another type cached beside it
C4_Witness ==
    /\ call.op = "calculate"
    /\ call.hit
    /\ Cardinality(DOMAIN cache) >= 2
    /\ ret = cache[call.m]

\* C7: vertices(m) = edges(m) - faces(m) + 2, with faces the sum of m[i] and
\* edges the floor of half the sum of (i + 2) * m[i], for every type of
\* non-negative counts, odd side sums and the all-zero type included.
C7_Euler ==
    /\ call.op = "faces" => ret = TotalOf(call.m)
    /\ call.op = "edges" => ret = WeightedOf(call.m, 2) \div 2
    /\ call.op = "vertices" =>
           ret = (WeightedOf(call.m, 2) \div 2) - TotalOf(call.m) + 2

\* vertices() of a type whose side sum is odd (the type of the unit test)
C7_Witness ==
    /\ call.op = "vertices"
    /\ call.m = <<2, 1, 0>>
    /\ WeightedOf(call.m, 2) % 2 = 1
    /\ ret = 2

\* C9: the e and v that calculate computes inline equal m.edges() and
\* m.vertices() for every type of non-negative counts.
C9_InlineMatchesMethods ==
    call.op = "calculate" =>
        /\ InlineE(call.m) = edges(call.m)
        /\ InlineV(call.m) = vertices(call.m)

-----------------------------------------------------------------------------
(* Properties of the type enumeration *)

\* v precedes w lexicographically, the first index the most significant
LexLess(v, w) ==
    \E j \in 1..Len(v) :
        /\ v[j] < w[j]
        /\ \A h \in 1..(j - 1) : v[h] = w[h]

\* all vectors of length k of non-negative integers that sum to n
Compositions(n, k) == {v \in [1..k -> 0..n] : TotalOf(v) = n}

\* C5: generate_types(n, k) is the list of all length-k vectors of
\* non-negative integers summing to n, each once, in ascending lexicographic
\* order; 10 vectors for n = 3, k = 3.
C5_GenerateTypes ==
    call.op = "generate_types" =>
        LET n == call.total_faces
            k == call.max_polygon_size
        IN  /\ {ret[i] : i \in 1..Len(ret)} = Compositions(n, k)
            /\ Len(ret) = Cardinality(Compositions(n, k))
            /\ \A i \in 1..(Len(ret) - 1) : LexLess(ret[i], ret[i + 1])
            /\ (n = 3 /\ k = 3) => Len(ret) = 10

\* the enumeration for total_faces = 3, max_polygon_size = 3
C5_Witness ==
    /\ call.op = "generate_types"
    /\ call.total_faces = 3
    /\ call.max_polygon_size = 3
    /\ Len(ret) = 10
    /\ ret[1] = <<0, 0, 3>>
    /\ ret[10] = <<3, 0, 0>>

-----------------------------------------------------------------------------
(* Properties of the solver *)

\* x^2 - 4, the polynomial of the unit test and of the spec's examples
TestQuadratic == <<FromInt(-4), Zero, One>>

RECURSIVE BelowPow10(_, _, _)
\* n / d < 10^(-k), for n >= 0 and d > 0
BelowPow10(n, d, k) == IF k = 0 THEN n < d ELSE BelowPow10(n, (d + 9) \div 10, k - 1)

\* |v| < 10^(-k) on f64
ErrorBelow(v, k) == v[2] > 0 /\ BelowPow10(IAbs(v[1]), v[2], k)

\* C2: solve_polynomial returns an error and leaves the calculator's cache
\* as it was whenever the coefficients have fewer than 2 entries
\* (DegreeTooLow, decided before c1 is read) or c1 is 0
\* (ZeroLinearCoefficient).
C2_ErrorsLeaveCache ==
    [][call'.op = "solve_polynomial" =>
          LET c == call'.coefficients
          IN  /\ Len(c) < 2 => (ret' = ErrDegreeTooLow /\ cache' = cache)
              /\ (Len(c) >= 2 /\ FEq(c[2], Zero)) =>
                     (ret' = ErrZeroLinear /\ cache' = cache)]_vars

\* a zero linear coefficient rejected by a solver whose cache is not empty
C2_Witness ==
    /\ call.op = "solve_polynomial"
    /\ Len(call.coefficients) >= 2
    /\ FEq(call.coefficients[2], Zero)
    /\ ret = ErrZeroLinear
    /\ DOMAIN cache # {}

\* C3 as stated: solve_polynomial on [-4,0,1] followed by bootstrap_root
\* from the series root ends with a root whose error is below 1e-10.
C3_QuadraticPipelineConverges ==
    (pc = "exit" /\ call.coefficients = TestQuadratic) =>
        /\ call.op = "bootstrap_root"
        /\ ErrorBelow(polynomial_function(TestQuadratic, ret), 10)

\* C3 as amended: solve_polynomial on [-4,0,1] returns the
\* ZeroLinearCoefficient error and no series root, so the refinement from
\* the series root is never run on these coefficients.
C3_QuadraticIsRejected ==
    /\ (call.op = "solve_polynomial" /\ call.coefficients = TestQuadratic) =>
           ret = ErrZeroLinear
    /\ call.op = "bootstrap_root" => call.coefficients # TestQuadratic

\* the run on [-4,0,1] ended, with the error
C3_Witness ==
    /\ pc = "exit"
    /\ call.op = "solve_polynomial"
    /\ call.coefficients = TestQuadratic
    /\ ret = ErrZeroLinear

\* C6 as stated: no public operation changes max_degree, max_terms or
\* debug_mode after construction.
C6_ConfigurationFrozen ==
    [][/\ max_degree' = max_degree
       /\ max_terms' = max_terms
       /\ debug_mode' = debug_mode]_vars

\* C6 as amended: no public operation changes max_degree or max_terms, and
\* debug_mode is changed only by set_debug_mode, to its argument.
C6_OnlySetDebugModeWrites ==
    [][/\ max_degree' = max_degree
       /\ max_terms' = max_terms
       /\ debug_mode' # debug_mode =>
              (call'.op = "set_debug_mode" /\ debug_mode' = call'.debug)
       /\ call'.op = "set_debug_mode" => debug_mode' = call'.debug]_vars

\* set_debug_mode(true) on a solver that has solved a polynomial
C6_Witness ==
    /\ call.op = "set_debug_mode"
    /\ call.debug
    /\ debug_mode
    /\ DOMAIN cache # {}

\* a solve_polynomial call that got past both error returns
ValidCall ==
    /\ call.op = "solve_polynomial"
    /\ Len(call.coefficients) >= 2
    /\ ~FEq(call.coefficients[2], Zero)

\* the series sum of the last call, recomputed from the solver's state
SeriesOfCall ==
    solve_geometric_form(GeometricCoeffs(call.coefficients), max_degree, max_terms, cache)

\* C11: when the series sum of a valid polynomial is exactly zero, as it is
\* with max_terms = 0, solve_polynomial returns Ok(1.0), not the quotient
\* by the sum.
C11_ZeroSumFallback ==
    ValidCall =>
        /\ max_terms = 0 => (~SeriesOfCall.panic /\ FEq(SeriesOfCall.result, Zero))
        /\ (~SeriesOfCall.panic /\ FEq(SeriesOfCall.result, Zero)) => ret = Ok(One)

\* a series with terms that cancel to zero: 1 - a - a^2 with max_terms = 2
C11_Witness ==
    /\ ValidCall
    /\ max_terms >= 1
    /\ ~SeriesOfCall.panic
    /\ FEq(SeriesOfCall.result, Zero)
    /\ ret = Ok(One)

\* C12: for every max_degree >= 0 and max_terms >= 0 and every coefficient
\* slice, solve_polynomial returns a root or an error value: it never
\* aborts, and max_degree - 1 never goes below zero.
C12_NeverAborts ==
    call.op = "solve_polynomial" =>
        /\ ret.kind \in {"Ok", "Err"}
        /\ pc # "panic"
        /\ (ValidCall /\ max_terms >= 1) => max_degree - 1 >= 0

\* C13: for a polynomial of degree d >= 1 with c1 # 0, a solver with
\* max_degree > d returns what a solver with max_degree = d and the same
\* max_terms returns; a linear polynomial c0 + c1*x yields -c0/c1 for every
\* max_degree >= 1 and max_terms >= 1.
C13_ExtraDegreeIsNeutral ==
    ValidCall =>
        LET c == call.coefficients
            d == Len(c) - 1
        IN  /\ max_degree > d =>
                   ret = SolveResult(c, d, max_terms, EmptyCache).ret
            /\ (d = 1 /\ max_degree >= 1 /\ max_terms >= 1) =>
                   ret = Ok(FDiv(FNeg(c[1]), c[2]))

\* C14: the result of solve_polynomial depends only on max_degree,
\* max_terms and the coefficients: on a cache filled by earlier calls it is
\* what a freshly constructed solver of the same configuration returns.
C14_ResultIgnoresHistory ==
    call.op = "solve_polynomial" =>
        ret = SolveResult(call.coefficients, max_degree, max_terms, EmptyCache).ret

\* a root computed with a series of several terms on a cache that earlier
\* calls had filled
C14_Witness ==
    /\ ValidCall
    /\ call.warm
    /\ ret.kind = "Ok"
    /\ max_terms >= 2
    /\ max_degree >= 2
    /\ Len(call.coefficients) >= 3

-----------------------------------------------------------------------------
(* Properties of bootstrap_root *)

\* C10: in each pass, |f'(x)| < epsilon stops the loop with x unchanged;
\* otherwise x becomes x - f(x)/f'(x) and the loop stops exactly when |f(x)|
\* at the old x, or |delta|, is below epsilon.  At most `iterations` updates
\* are made; with iterations = 0 or |f'| < epsilon at the initial guess the
\* initial guess is returned.
C10_BootstrapLoop ==
    /\ [][(pc = "loop" /\ iter < call.iterations) =>
             LET c == call.coefficients
                 eps == call.epsilon
                 f_x == polynomial_function(c, x)
                 df_x == derivative_function(c, x)
                 delta == FDiv(f_x, df_x)
             IN  IF FLt(FAbs(df_x), eps)
                 THEN x' = x /\ pc' = "break" /\ iter' = iter
                 ELSE /\ x' = FSub(x, delta)
                      /\ IF FLt(FAbs(f_x), eps) \/ FLt(FAbs(delta), eps)
                         THEN pc' = "break" /\ iter' = iter
                         ELSE pc' = "loop" /\ iter' = iter + 1]_vars
    /\ [][~(pc = "loop" /\ iter < call.iterations) =>
             (x' = x /\ iter' = iter /\ ret' = x /\ pc' = "idle")]_vars
    /\ [](/\ iter <= call.iterations
          /\ pc = "break" => iter < call.iterations)
    /\ []((/\ pc = "idle"
           /\ \/ call.iterations = 0
              \/ FLt(FAbs(derivative_function(call.coefficients, call.initial_guess)),
                     call.epsilon))
          => ret = call.initial_guess)

\* a run that took one full pass and left the loop in its second pass
\* because |f(x)| at the old x was below epsilon, with a zero step
C10_Witness ==
    /\ pc = "break"
    /\ iter = 1
    /\ x # call.initial_guess
    /\ FLt(FAbs(polynomial_function(call.coefficients, x)), call.epsilon)
    /\ ~FLt(FAbs(derivative_function(call.coefficients, x)), call.epsilon)

====
